---- MODULE Spec2Model ----
(***************************************************************************)
(* daqlogger, src/main.rs: the DAQVTask acquisition task (new,             *)
(* acquire_samples, get_samples, get_timestamps, Drop) and the part of     *)
(* main that drives it, over an NI-DAQmx driver whose calls return a       *)
(* status chosen by the environment.                                       *)
(***************************************************************************)
EXTENDS Integers, Sequences, FiniteSets, TLC

VARIABLES
    pc,            \* where the caller stands: "start", "live", "err", "panic", "dropped"
    args,          \* Args::parse(): [mode, rate, size]
    task_handle,   \* DAQVTask.task_handle (NULL while no object exists)
    samples_len,   \* DAQVTask.samples.len()
    samples_by,    \* which acquire's read last filled DAQVTask.samples (0: none yet)
    read_by,       \* which acquire last wrote samples_read and timestamps (0: none yet)
    timestamps,    \* DAQVTask.timestamps, nanoseconds on the local clock
    channels,      \* DAQVTask.channels
    sample_rate,   \* DAQVTask.sample_rate
    samples_read,  \* self.samples_read, written by acquire_samples
    sample_count,  \* the sample_count argument new was given
    sel_mode,      \* the mode argument new was given
    drv,           \* driver side of the task: "none", "idle", "running", "cleared"
    drv_chans,     \* the channel count the driver holds for the task
    calls,         \* the driver calls the last operation issued, in order
    steps,         \* the clock readings and driver calls of the last operation, by name
    stderr,        \* the eprintln! lines of the last operation: <<prefix, status>>
    ret,           \* what the last operation gave its caller
    view,          \* the slice the last get_samples / get_timestamps returned
    clock,         \* Local::now()
    acqs,          \* acquire_samples calls made so far
    drops          \* times Drop::drop has run on the object

vars == <<pc, args, task_handle, samples_len, timestamps, channels, sample_rate,
          samples_read, sample_count, sel_mode, drv, drv_chans, calls, steps,
          stderr, ret, view, clock, acqs, drops, samples_by, read_by>>

(***************************************************************************)
(* Bounds of the model.                                                    *)
(***************************************************************************)
MaxChannels == 2
MaxSampleCount == 2
MaxAcquires == 2
MaxDrops == 2
LongCount == 31

(***************************************************************************)
(* Inputs.                                                                 *)
(***************************************************************************)
\* Word sizes, scaled down so that 32-bit integers can hold them:
\* U32_MOD stands for 2^32 (the range of `as u32`) and USIZE_MOD for 2^64
\* (the range of usize); as in the program, the first divides the second and
\* every length of the ordinary runs is below the first.
U32_MOD == 128
USIZE_MOD == 512

\* DAQmx status codes: 0 is success, the others are two driver errors
\* (invalid task, read timeout).
ErrCodes == {-200088, -200284}
Status == {0} \cup ErrCodes

\* --rate values: a slow rate whose period is not a whole number of ns, and
\* a rate above one sample per nanosecond.
Rates == {3, 2000000000}
\* --size values: the short batches, and one batch that takes longer than ten
\* seconds at the slow rate
Counts == (0..MaxSampleCount) \cup {LongCount}

\* --size values at and beyond the word sizes: one that `as u32` maps to 0,
\* one it maps to 1, and one whose product with two channels leaves usize
WideCounts == {U32_MOD, U32_MOD + 1, USIZE_MOD \div 2 + U32_MOD \div 2 + 1}

MeasurementMode == {"RSE", "NRSE", "DIFF", "PSEUDODIFF"}

NULL == 0
HANDLE == 1
NS_PER_SEC == 1000000000
READ_TIMEOUT == 10
READ_UNSET == -1

\* Translate mode options
ModeConst(mode) ==
    CASE mode = "RSE" -> "DAQmx_Val_RSE"
      [] mode = "NRSE" -> "DAQmx_Val_NRSE"
      [] mode = "DIFF" -> "DAQmx_Val_Diff"
      [] mode = "PSEUDODIFF" -> "DAQmx_Val_PseudoDiff"

Call(op, st, arg) == [op |-> op, st |-> st, arg |-> arg]

Ok(fn, v) == [fn |-> fn, kind |-> "Ok", val |-> v]
Err(fn, e) == [fn |-> fn, kind |-> "Err", val |-> e]
Panic(fn) == [fn |-> fn, kind |-> "Panic", val |-> 0]
NoRet == [fn |-> "none", kind |-> "none", val |-> 0]
NoView == [of |-> "none", len |-> 0]

\* a return_if_err! that only logs, as check_err! does
ReturnIfErrNever(err) == FALSE

\* return_if_err!: TRUE when the macro returns Err($err) from the function
ReturnIfErr(err) == err # 0

\* the statuses a driver call can return after the calls that returned prev:
\* a call the function never reaches returns nothing, and 0 stands for that
StatusAfter(prev) ==
    IF \E i \in DOMAIN prev : ReturnIfErr(prev[i]) THEN {0} ELSE Status

\* Local::now(): each reading of the clock is later than the one before
Now(c) == c + 1

\* both macros print the same line when $err != 0
Eprintln(prefix, err) == IF err # 0 THEN <<<<prefix, err>>>> ELSE <<>>

Init ==
    /\ pc = "start"
    /\ args \in [mode : MeasurementMode, rate : Rates, size : Counts]
    /\ task_handle = NULL
    /\ samples_len = 0
    /\ samples_by = 0
    /\ read_by = 0
    /\ timestamps = <<>>
    /\ channels = 0
    /\ sample_rate = 0
    /\ samples_read = READ_UNSET
    /\ sample_count = 0
    /\ sel_mode = "none"
    /\ drv = "none"
    /\ drv_chans = 0
    /\ calls = <<>>
    /\ steps = <<>>
    /\ stderr = <<>>
    /\ ret = NoRet
    /\ view = NoView
    /\ clock = 0
    /\ acqs = 0
    /\ drops = 0

\* the names of a run of driver calls
Ops(cs) == [i \in DOMAIN cs |-> cs[i].op]

\* the stderr lines the macros print for a run of driver calls
RECURSIVE Errs(_)
Errs(cs) == IF cs = <<>> THEN <<>>
            ELSE Eprintln(Head(cs).op, Head(cs).st) \o Errs(Tail(cs))

\* let buffer_size = (channels as usize)*(sample_count as usize), as a
\* release build computes it (the product wraps)
BufferSize(ch, sc) == (ch * sc) % USIZE_MOD

\* what the same multiplication does when the product leaves usize: a release
\* build wraps, a debug build panics
Multiply(ch, sc) ==
    IF ch * sc >= USIZE_MOD THEN {"wrap", "panic"} ELSE {"exact"}

\* assert!(channels > 0)
AssertChannels(n) == n > 0

\* new with the add-channel status logged but not returned on
NewIssuedAddUnchecked(s1, s2, s3, s4, n) ==
    IF ReturnIfErr(s1) THEN 1
    ELSE IF ReturnIfErr(s3) THEN 3
    ELSE IF ~AssertChannels(n) THEN 3
    ELSE 4

\* how many of new's four driver calls are issued, given their statuses and
\* the channel count the driver reports
NewIssued(s1, s2, s3, s4, n) ==
    IF ReturnIfErr(s1) THEN 1
    ELSE IF ReturnIfErr(s2) THEN 2
    ELSE IF ReturnIfErr(s3) THEN 3
    ELSE IF ~AssertChannels(n) THEN 3
    ELSE 4

\* what new gives its caller
NewResult(s1, s2, s3, s4, n) ==
    IF ReturnIfErr(s1) THEN Err("new", s1)
    ELSE IF ReturnIfErr(s2) THEN Err("new", s2)
    ELSE IF ReturnIfErr(s3) THEN Err("new", s3)
    ELSE IF ~AssertChannels(n) THEN Panic("new")
    ELSE IF ReturnIfErr(s4) THEN Err("new", s4)
    ELSE Ok("new", 0)

\* new's steps: its driver calls, then timestamps.resize(buffer_size,
\* Local::now()) when it gets that far
NewSteps(ops, built) == IF built THEN ops \o <<"Local::now">> ELSE ops

\* what DAQmxCreateTask leaves in task_handle, which new initialised to null:
\* a handle, or nothing (the case drop's null test provides for)
HandlesCreated(s1) == IF s1 = 0 THEN {HANDLE, NULL} ELSE {NULL}

\* DAQVTask::new(channels, mode, sample_rate, sample_count)
New(mode, rate, sc) ==
    /\ pc = "start"
    /\ \E s1 \in Status : \E h \in HandlesCreated(s1) :
       \E s2 \in StatusAfter(<<s1>>) :
       \E s3 \in StatusAfter(<<s1, s2>>) :
       \E n \in (IF s2 = 0 /\ s3 = 0 THEN 0..MaxChannels ELSE {0}) :
       \E s4 \in (IF AssertChannels(n) THEN StatusAfter(<<s1, s2, s3>>) ELSE {0}) :
       \E mul \in Multiply(n, sc) :
        LET all == << Call("DAQmxCreateTask", s1, h),
                      Call("DAQmxCreateAIVoltageChan", s2, ModeConst(mode)),
                      Call("DAQmxGetTaskNumChans", s3, n),
                      Call("DAQmxCfgSampClkTiming", s4, sc) >>
            k == NewIssued(s1, s2, s3, s4, n)
            issued == SubSeq(all, 1, k)
            res == NewResult(s1, s2, s3, s4, n)
            out == IF res.kind = "Ok" /\ mul = "panic" THEN Panic("new") ELSE res
            buffer_size == BufferSize(n, sc)
        IN  /\ calls' = issued
            /\ steps' = NewSteps(Ops(issued), out.kind = "Ok")
            /\ stderr' = Errs(issued)
            /\ ret' = out
            /\ drv' = IF h # NULL THEN "idle" ELSE "none"
            /\ drv_chans' = IF k >= 2 /\ s1 = 0 /\ s2 = 0 THEN n ELSE 0
            /\ sel_mode' = mode
            /\ sample_count' = sc
            /\ IF out.kind = "Ok"
               THEN /\ pc' = "live"
                    /\ task_handle' = h
                    /\ samples_len' = buffer_size
                    /\ timestamps' = [i \in 1..buffer_size |-> clock]
                    /\ sample_rate' = rate
                    /\ channels' = n
               ELSE /\ pc' = IF out.kind = "Panic" THEN "panic" ELSE "err"
                    /\ UNCHANGED <<task_handle, samples_len, timestamps,
                                   sample_rate, channels>>
    /\ UNCHANGED <<args, samples_read, view, clock, acqs, drops, samples_by,
                   read_by>>

\* main: DAQVTask::new(&args.channels, MeasurementMode::RSE, args.rate, args.size)
MainNew == New("RSE", args.rate, args.size)

\* a caller of the constructor that passes the mode it selected
CallNew == New(args.mode, args.rate, args.size)

\* let period = TimeDelta::nanoseconds((1e9*(1.0/self.sample_rate)) as i64)
Period(rate) == NS_PER_SEC \div rate

\* an array size one row larger than the buffer
ArraySizeArgPlusRow(len, ch) == len + ch

\* self.samples.len() as u32, the array size the read is given
ArraySizeArg(len, ch) == len % U32_MOD

\* the rows a read may report: the driver fills whole rows of one value per
\* channel and never more values than the array size it was given
MaxRows(size, ch) == IF ch > 0 THEN size \div ch ELSE 0

\* the row counts a read reports here: of a long batch only the reads that
\* stop within MaxSampleCount rows are followed
RowsRead(size, ch) ==
    {r \in 0..MaxRows(size, ch) : r <= MaxSampleCount}

\* how many of acquire_samples' three driver calls are issued
AcquireIssued(s1, s2, s3) ==
    IF ReturnIfErr(s1) THEN 1
    ELSE IF ReturnIfErr(s2) THEN 2
    ELSE 3

\* what acquire_samples gives its caller; self.timestamps[i] panics when the
\* index is out of bounds
AcquireResult(s1, s2, s3, read, cap) ==
    IF ReturnIfErr(s1) THEN Err("acquire", s1)
    ELSE IF ReturnIfErr(s2) THEN Err("acquire", s2)
    ELSE IF ReturnIfErr(s3) THEN Err("acquire", s3)
    ELSE IF read > cap THEN Panic("acquire")
    ELSE Ok("acquire", read)

\* for i in 0..read { self.timestamps[i] = start_time + period*i }
FillTimestamps(ts, start_time, period, read) ==
    [i \in 1..Len(ts) |-> IF i <= read THEN start_time + period * (i - 1)
                          ELSE ts[i]]

\* &self.samples[0..read], &self.timestamps[0..read]
GetSamplesLen(read, ch) == read
GetTimestampsLen(read) == read

\* an acquire that reads the clock after its driver calls
AcquireStepsClockLast(ops) == ops \o <<"Local::now">>

\* acquire_samples' steps: let start_time = Local::now(), then its driver calls
AcquireSteps(ops) == <<"Local::now">> \o ops

\* DAQVTask::acquire_samples(&mut self), entered with the channels field set
\* to ch; withView: the caller takes the samples slice of a successful read
Acquire(ch, withView) ==
    /\ pc = "live"
    /\ acqs < MaxAcquires
    /\ \E s1 \in Status : \E s2 \in StatusAfter(<<s1>>) :
       \E s3 \in StatusAfter(<<s1, s2>>) :
       \E r \in (IF s2 = 0
                THEN RowsRead(ArraySizeArg(samples_len, drv_chans), drv_chans)
                ELSE {0}) :
        LET start_time == Now(clock)
            size == ArraySizeArg(samples_len, drv_chans)
            k == AcquireIssued(s1, s2, s3)
            read == IF k >= 2 /\ s2 = 0 THEN r ELSE READ_UNSET
            all == << Call("DAQmxStartTask", s1, task_handle),
                      Call("DAQmxReadAnalogF64", s2,
                           [timeout |-> READ_TIMEOUT, size |-> size,
                            read |-> read]),
                      Call("DAQmxStopTask", s3, task_handle) >>
            issued == SubSeq(all, 1, k)
            out == AcquireResult(s1, s2, s3, read, Len(timestamps))
        IN  /\ calls' = issued
            /\ steps' = AcquireSteps(Ops(issued))
            /\ stderr' = Errs(issued)
            /\ ret' = out
            /\ clock' = start_time
            /\ drv' = IF drv \in {"none", "cleared"} THEN drv
                      ELSE IF k = 3 /\ s3 = 0 THEN "idle"
                      ELSE IF s1 = 0 THEN "running"
                      ELSE drv
            /\ samples_by' = IF k >= 2 /\ s2 = 0 THEN acqs + 1 ELSE samples_by
            /\ IF out.kind = "Ok"
               THEN /\ timestamps' = FillTimestamps(timestamps, start_time,
                                                    Period(sample_rate), read)
                    /\ samples_read' = read
                    /\ read_by' = acqs + 1
                    /\ view' = IF withView
                               THEN [of |-> "samples",
                                     len |-> GetSamplesLen(read, ch)]
                               ELSE NoView
                    /\ pc' = pc
               ELSE /\ UNCHANGED <<timestamps, samples_read, read_by>>
                    /\ view' = NoView
                    /\ pc' = IF out.kind = "Panic" THEN "unwinding" ELSE pc
    /\ channels' = ch
    /\ acqs' = acqs + 1
    /\ UNCHANGED <<args, task_handle, samples_len, sample_rate, sample_count,
                   sel_mode, drv_chans, drops>>

\* a caller's task.acquire_samples()
AcquireSamples == Acquire(channels, FALSE)

\* main's loop body: let channels = task.channels; task.channels = 1;
\* match task.read_samples() { Ok(samples) => print the rows, Err(code) => .. }
MainLoop == Acquire(1, TRUE)

\* DAQVTask::get_samples
GetSamples ==
    /\ pc = "live"
    /\ samples_read # READ_UNSET
    /\ view' = [of |-> "samples", len |-> GetSamplesLen(samples_read, channels)]
    /\ ret' = Ok("get_samples", 0)
    /\ calls' = <<>>
    /\ steps' = <<>>
    /\ stderr' = <<>>
    /\ UNCHANGED <<pc, args, task_handle, samples_len, timestamps, channels,
                   sample_rate, samples_read, sample_count, sel_mode, drv,
                   drv_chans, clock, acqs, drops, samples_by, read_by>>

\* DAQVTask::get_timestamps
GetTimestamps ==
    /\ pc = "live"
    /\ samples_read # READ_UNSET
    /\ view' = [of |-> "timestamps", len |-> GetTimestampsLen(samples_read)]
    /\ ret' = Ok("get_timestamps", 0)
    /\ calls' = <<>>
    /\ steps' = <<>>
    /\ stderr' = <<>>
    /\ UNCHANGED <<pc, args, task_handle, samples_len, timestamps, channels,
                   sample_rate, samples_read, sample_count, sel_mode, drv,
                   drv_chans, clock, acqs, drops, samples_by, read_by>>

\* a drop without the null test
HandleLiveAlways(h) == TRUE

\* if self.task_handle != std::ptr::null_mut()
HandleLive(h) == h # NULL

\* a drop that clears the task before it stops it
DropCallsClearFirst(h, s1, s2) ==
    << Call("DAQmxClearTask", s2, h), Call("DAQmxStopTask", s1, h) >>

\* the two driver calls of drop, in its order
DropCalls(h, s1, s2) ==
    << Call("DAQmxStopTask", s1, h), Call("DAQmxClearTask", s2, h) >>

\* Drop::drop(&mut self): stop, then clear, each checked with check_err!
DropBody ==
    \E s1 \in (IF HandleLive(task_handle) THEN Status ELSE {0}) :
    \E s2 \in (IF HandleLive(task_handle) THEN Status ELSE {0}) :
        LET all == DropCalls(task_handle, s1, s2)
            issued == IF HandleLive(task_handle) THEN all ELSE <<>>
        IN  /\ calls' = issued
            /\ steps' = Ops(issued)
            /\ stderr' = Errs(issued)
            /\ ret' = Ok("drop", 0)
            /\ drv' = IF issued = <<>> \/ drv \in {"none", "cleared"} THEN drv
                      ELSE IF s2 = 0 THEN "cleared"
                      ELSE IF s1 = 0 THEN "idle"
                      ELSE drv
            /\ drops' = drops + 1
            /\ view' = NoView
            /\ UNCHANGED <<args, task_handle, samples_len, timestamps, channels,
                           sample_rate, samples_read, sample_count, sel_mode,
                           drv_chans, clock, acqs, samples_by, read_by>>

\* the task object goes out of scope (or the stack unwinds through its owner)
Drop ==
    /\ pc \in {"live", "unwinding"}
    /\ pc' = "dropped"
    /\ DropBody

\* the release logic run again on the same object
Redrop ==
    /\ pc = "dropped"
    /\ drops < MaxDrops
    /\ pc' = pc
    /\ DropBody

Next ==
    \/ MainNew
    \/ CallNew
    \/ AcquireSamples
    \/ MainLoop
    \/ GetSamples
    \/ GetTimestamps
    \/ Drop

Spec == Init /\ [][Next]_vars

\* the same program started with a --size at or beyond the word sizes
InitWide ==
    /\ pc = "start"
    /\ args \in [mode : MeasurementMode, rate : Rates, size : WideCounts]
    /\ task_handle = NULL
    /\ samples_len = 0
    /\ samples_by = 0
    /\ read_by = 0
    /\ timestamps = <<>>
    /\ channels = 0
    /\ sample_rate = 0
    /\ samples_read = READ_UNSET
    /\ sample_count = 0
    /\ sel_mode = "none"
    /\ drv = "none"
    /\ drv_chans = 0
    /\ calls = <<>>
    /\ steps = <<>>
    /\ stderr = <<>>
    /\ ret = NoRet
    /\ view = NoView
    /\ clock = 0
    /\ acqs = 0
    /\ drops = 0

SpecWide == InitWide /\ [][Next]_vars

\* the same program with its release logic invoked more than once
NextRedrop == Next \/ Redrop

SpecRedrop == Init /\ [][NextRedrop]_vars

(***************************************************************************)
(* The claims.                                                             *)
(***************************************************************************)
Exited == pc \in {"err", "panic", "dropped"}
Issued(op) == \E i \in DOMAIN calls : calls[i].op = op
AllZero == \A i \in DOMAIN calls : calls[i].st = 0
Failing == {i \in DOMAIN calls : calls[i].st # 0}
NewOrder == << "DAQmxCreateTask", "DAQmxCreateAIVoltageChan",
               "DAQmxGetTaskNumChans", "DAQmxCfgSampClkTiming" >>
AcquireOrder == << "DAQmxStartTask", "DAQmxReadAnalogF64", "DAQmxStopTask" >>

\* C1: when the program has ended (construction returned an error or
\* panicked, or the task was dropped), a handle the driver allocated has had
\* DAQmxClearTask called on it.
C1_HandleReleasedOnExit ==
    Exited => (drv = "none" \/ (pc = "dropped" /\ Issued("DAQmxClearTask")))

\* C2: whenever acquire_samples has returned, with Ok or with Err, the task
\* is not left running in the driver.
C2_IdleWhenAcquireReturns ==
    ret.fn = "acquire" => drv # "running"

\* C3: the samples slice has samples_read * channels elements and the
\* timestamps slice has samples_read elements.
C3_ViewLengths ==
    /\ view.of = "samples" => view.len = samples_read * channels
    /\ view.of = "timestamps" => view.len = samples_read

\* C4: a second run of the release logic on the same task issues no driver
\* call.
C4_SecondReleaseSilent ==
    (pc = "dropped" /\ drops >= 2) => calls = <<>>

C7_ZeroChannelsIsError ==
    (ret.fn = "new" /\ Len(calls) >= 3 /\ AllZero /\ calls[3].arg = 0) =>
        (ret.kind = "Err" /\ Len(calls) = 3)

\* C8: while the task lives, channels is the driver's channel count, is
\* positive, and the sample buffer holds channels * sample_count values.
C8_ChannelsAndCapacityFixed ==
    pc = "live" =>
        /\ channels = drv_chans
        /\ channels > 0
        /\ samples_len = channels * sample_count

\* C9: samples_read never exceeds sample_count; a read of fewer rows than
\* requested that returned zero, followed by a stop that returned zero, gives
\* Ok with that row count, and the slices hold no row beyond it; the
\* timestamp fill never indexes beyond the timestamp buffer.
C9_PartialReadInBounds ==
    /\ samples_read <= sample_count
    /\ samples_read <= Len(timestamps)
    /\ ret.fn = "acquire" => ret.kind # "Panic"
    /\ (ret.fn = "acquire" /\ Len(calls) = 3 /\ AllZero) =>
          /\ calls[2].arg.read <= sample_count
          /\ ret = Ok("acquire", calls[2].arg.read)
          /\ samples_read = calls[2].arg.read
    /\ view.of = "samples" => view.len <= samples_read * drv_chans
    /\ view.of = "timestamps" => view.len = samples_read

\* C9 witness: a successful acquire of fewer rows than requested.
C9_Witness ==
    /\ ret.fn = "acquire"
    /\ ret.kind = "Ok"
    /\ samples_read > 0
    /\ samples_read < sample_count

\* C10: after a successful acquire, row i has timestamp start_time + i *
\* period and each row's timestamp is later than the one before.
C10_TimestampsIncreasing ==
    (ret.fn = "acquire" /\ ret.kind = "Ok") =>
        /\ \A i \in 1..samples_read :
              timestamps[i] = clock + (i - 1) * Period(sample_rate)
        /\ \A i \in 1..(samples_read - 1) : timestamps[i + 1] > timestamps[i]

\* the whole seconds a batch of sc samples at rate samples/s takes, rounded up
BatchSeconds(sc, rate) == (sc + rate - 1) \div rate

\* C11: the timeout a read is given, in seconds, is at least the time the
\* batch takes, sample_count / sample_rate.
C11_TimeoutCoversBatch ==
    \A i \in DOMAIN calls :
        calls[i].op = "DAQmxReadAnalogF64" =>
            calls[i].arg.timeout >= BatchSeconds(sample_count, sample_rate)

\* the DAQmx status that says the task handle itself is invalid
InvalidHandle(st) == st = -200088

\* C12: after an acquire that failed with an invalid-handle status, the next
\* acquire issues no driver call and returns the same error.
C12_FailFastAfterInvalidHandle ==
    [][(/\ ret.fn = "acquire"
        /\ ret.kind = "Err"
        /\ InvalidHandle(ret.val)
        /\ acqs' = acqs + 1) => (calls' = <<>> /\ ret' = ret)]_vars

\* C13: a drop of a task whose handle is not null issues DAQmxStopTask and
\* then DAQmxClearTask on it, the clear also after a stop that failed; a drop
\* of a task whose handle is null issues nothing; either way drop completes,
\* its failures going to stderr only.
C13_TeardownStopThenClear ==
    ret.fn = "drop" =>
        /\ ret = Ok("drop", 0)
        /\ pc = "dropped"
        /\ task_handle # NULL =>
              /\ Len(calls) = 2
              /\ calls[1].op = "DAQmxStopTask"
              /\ calls[2].op = "DAQmxClearTask"
              /\ \A i \in DOMAIN calls : calls[i].arg = task_handle
        /\ task_handle = NULL => calls = <<>>
        /\ Len(stderr) = Cardinality(Failing)

\* C13 witness: the stop of a drop failed and the clear was issued after it.
C13_Witness ==
    /\ ret.fn = "drop"
    /\ Len(calls) = 2
    /\ calls[1].st # 0
    /\ calls[2].op = "DAQmxClearTask"

\* a drop of a task whose handle is null happens
C13_NullDropReached ==
    ret.fn = "drop" /\ task_handle = NULL

\* C14: a successful acquire is, in this order and once each, the reading of
\* the clock for start_time, DAQmxStartTask, DAQmxReadAnalogF64 and
\* DAQmxStopTask, and its first row carries the start_time read.
C14_AcquireStepOrder ==
    (ret.fn = "acquire" /\ ret.kind = "Ok") =>
        /\ steps = <<"Local::now">> \o AcquireOrder
        /\ Ops(calls) = AcquireOrder
        /\ samples_read >= 1 => timestamps[1] = clock

\* C14 witness: a successful acquire of at least one row.
C14_Witness ==
    /\ ret.fn = "acquire"
    /\ ret.kind = "Ok"
    /\ samples_read >= 1
    /\ Len(steps) = 4

\* C15: the four modes map to four different wiring constants, and the
\* add-channel call of a construction receives the constant of the mode the
\* caller selected (args.mode).
C15_SelectedModeReachesDriver ==
    /\ \A m1, m2 \in MeasurementMode :
          ModeConst(m1) = ModeConst(m2) => m1 = m2
    /\ (ret.fn = "new" /\ Len(calls) >= 2) =>
          calls[2].arg = ModeConst(args.mode)

\* C16: once samples_read is set, it and the timestamps were written by the
\* same acquire whose read last filled the sample buffer.
C16_ReadDescribesBuffer ==
    samples_read # READ_UNSET => read_by = samples_by

\* the position of the clear among the last operation's calls, if any
ClearAt(cs) == {i \in DOMAIN cs : cs[i].op = "DAQmxClearTask"}

\* C17: no driver call follows a DAQmxClearTask on the handle: none later in
\* the operation that cleared it, and none in any operation after it.
C17_NoCallAfterClear ==
    [][/\ \A i \in ClearAt(calls') : i = Len(calls')
       /\ ClearAt(calls) # {} => calls' = <<>>]_vars

\* C17 witness: a task that was acquired from and then dropped, its handle
\* cleared.
C17_Witness ==
    /\ pc = "dropped"
    /\ acqs >= 1
    /\ ClearAt(calls) # {}
    /\ drv = "cleared"

\* C18: the array size a read is given is the buffer length cast to u32,
\* which is channels * sample_count modulo the u32 range, and is never more
\* than the sample buffer really holds.
C18_ArraySizeWithinBuffer ==
    \A i \in DOMAIN calls :
        calls[i].op = "DAQmxReadAnalogF64" =>
            /\ calls[i].arg.size <= samples_len
            /\ calls[i].arg.size = (drv_chans * sample_count) % U32_MOD

\* C18 witness: a read of a buffer too long for u32, given a smaller size.
C18_Witness ==
    /\ Len(calls) >= 2
    /\ calls[2].op = "DAQmxReadAnalogF64"
    /\ samples_len >= U32_MOD
    /\ calls[2].arg.size < samples_len

====
